---------------------------- MODULE Spec2Model ----------------------------
(***************************************************************************)
(* Staffing-compliance engine of the day-service management application    *)
(* (src/app.py): the utilization estimator, the required/available staff   *)
(* comparison and the data they read from the session state.               *)
(*                                                                         *)
(* Python floats are IEEE-754 binary64.  They are modelled exactly: a      *)
(* positive float is a 53-bit significand (a natural number held in        *)
(* base-2^15 limbs, least significant first) and the exponent of its last  *)
(* bit; every arithmetic operation computes the exact result and rounds    *)
(* it to nearest, ties to even, as the hardware does.                      *)
(***************************************************************************)
EXTENDS Integers, Sequences, FiniteSets, TLC

(***************************************************************************)
(* Generic helpers                                                         *)
(***************************************************************************)
Min(a, b) == IF a <= b THEN a ELSE b
Max(a, b) == IF a >= b THEN a ELSE b

Zeros(n) == [i \in 1..n |-> 0]

(***************************************************************************)
(* Natural numbers of any size: sequences of limbs in base 2^15, least     *)
(* significant limb first, no leading (high) zero limb; <<>> is 0.         *)
(***************************************************************************)
LimbBits == 3 * 5
Base == 2^LimbBits

RECURSIVE BigNorm(_)
BigNorm(n) ==
  IF n = <<>> THEN <<>>
  ELSE IF n[Len(n)] # 0 THEN n ELSE BigNorm(SubSeq(n, 1, Len(n) - 1))

RECURSIVE NatToBig(_)
NatToBig(v) == IF v = 0 THEN <<>> ELSE <<v % Base>> \o NatToBig(v \div Base)

\* the value of a number below 2^31
RECURSIVE BigToNat(_)
BigToNat(n) == IF n = <<>> THEN 0 ELSE n[1] + Base * BigToNat(Tail(n))

\* number of bits of a limb, and of a number
LimbLen(v) == CHOOSE k \in 0..LimbBits : v < 2^k /\ (k = 0 \/ v >= 2^(k - 1))
BigLen(n) == IF n = <<>> THEN 0 ELSE LimbBits * (Len(n) - 1) + LimbLen(n[Len(n)])

\* bit i (0 = least significant) of n, and whether any bit below i is set
BigBit(n, i) ==
  IF i \div LimbBits + 1 > Len(n) THEN 0
  ELSE (n[i \div LimbBits + 1] \div 2^(i % LimbBits)) % 2

BigLowNonzero(n, i) ==
  \/ \E j \in 1..Min(i \div LimbBits, Len(n)) : n[j] # 0
  \/ /\ i \div LimbBits + 1 <= Len(n)
     /\ n[i \div LimbBits + 1] % 2^(i % LimbBits) # 0

\* n * k for 0 < k <= Base
RECURSIVE BigMulFrom(_, _, _, _)
BigMulFrom(n, k, i, carry) ==
  IF i > Len(n) THEN NatToBig(carry)
  ELSE LET t == n[i] * k + carry
       IN  <<t % Base>> \o BigMulFrom(n, k, i + 1, t \div Base)

BigMulSmall(n, k) == BigNorm(BigMulFrom(n, k, 1, 0))

\* n \div d and n % d for 0 < d <= Base
RECURSIVE BigDivFrom(_, _, _, _)
BigDivFrom(n, d, i, r) ==
  IF i = 0 THEN [q |-> <<>>, r |-> r]
  ELSE LET cur  == r * Base + n[i]
           rest == BigDivFrom(n, d, i - 1, cur % d)
       IN  [q |-> Append(rest.q, cur \div d), r |-> rest.r]

BigDivSmall(n, d) ==
  LET res == BigDivFrom(n, d, Len(n), 0)
  IN  [q |-> BigNorm(res.q), r |-> res.r]

\* n * 2^s and n \div 2^s
BigShl(n, s) ==
  IF n = <<>> THEN <<>>
  ELSE Zeros(s \div LimbBits) \o BigMulSmall(n, 2^(s % LimbBits))

BigShr(n, s) ==
  IF s \div LimbBits >= Len(n) THEN <<>>
  ELSE BigDivSmall(SubSeq(n, s \div LimbBits + 1, Len(n)), 2^(s % LimbBits)).q

\* a + b
RECURSIVE BigAddFrom(_, _, _, _)
BigAddFrom(a, b, i, carry) ==
  IF i > Len(a) /\ i > Len(b) THEN NatToBig(carry)
  ELSE LET t == (IF i <= Len(a) THEN a[i] ELSE 0)
                + (IF i <= Len(b) THEN b[i] ELSE 0) + carry
       IN  <<t % Base>> \o BigAddFrom(a, b, i + 1, t \div Base)

BigAdd(a, b) == BigNorm(BigAddFrom(a, b, 1, 0))

\* a < b
RECURSIVE BigLessFrom(_, _, _)
BigLessFrom(a, b, i) ==
  IF i = 0 THEN FALSE
  ELSE IF a[i] # b[i] THEN a[i] < b[i]
  ELSE BigLessFrom(a, b, i - 1)

BigLess(a, b) ==
  IF Len(a) # Len(b) THEN Len(a) < Len(b) ELSE BigLessFrom(a, b, Len(a))

\* the lowest set bit of n # 0
BigLowestBit(n) ==
  CHOOSE s \in 0..(LimbBits * Len(n)) : BigBit(n, s) = 1 /\ ~BigLowNonzero(n, s)

(***************************************************************************)
(* binary64 values (finite, not negative): FZero, or                       *)
(* [m |-> significand of exactly 53 bits, e |-> exponent of its last bit], *)
(* standing for m * 2^e.                                                   *)
(***************************************************************************)
Precision == 53

FZero == [m |-> <<>>, e |-> 0]

\* the exact value n * 2^e (plus something below the last bit of n when
\* sticky) rounded to binary64: to nearest, ties to even
RoundNE(n, e, sticky) ==
  IF n = <<>> THEN FZero
  ELSE IF BigLen(n) <= Precision
  THEN [m |-> BigShl(n, Precision - BigLen(n)), e |-> e - (Precision - BigLen(n))]
  ELSE LET s     == BigLen(n) - Precision
           keep  == BigShr(n, s)
           guard == BigBit(n, s - 1)
           rest  == sticky \/ BigLowNonzero(n, s - 1)
           up    == guard = 1 /\ (rest \/ BigBit(keep, 0) = 1)
           inc   == BigAdd(keep, <<1>>)
       IN  IF ~up THEN [m |-> keep, e |-> e + s]
           ELSE IF BigLen(inc) > Precision
                THEN [m |-> BigShr(inc, 1), e |-> e + s + 1]
                ELSE [m |-> inc, e |-> e + s]

\* float(v) for a natural v
FromInt(v) == RoundNE(NatToBig(v), 0, FALSE)

\* x * k, k a natural that is exactly a float (x * 10, float(cap) * x)
FMulSmall(x, k) ==
  IF x = FZero \/ k = 0 THEN FZero ELSE RoundNE(BigMulSmall(x.m, k), x.e, FALSE)

\* x / d for a natural d > 0: the quotient is taken to at least two bits
\* more than the precision, the remainder decides the rest
FDivSmall(x, d) ==
  IF x = FZero THEN FZero
  ELSE LET extra == LimbLen(d) + 2
           res   == BigDivSmall(BigShl(x.m, extra), d)
       IN  RoundNE(res.q, x.e - extra, res.r # 0)

\* x / y for a float y > 0 whose significand is a small odd number times a
\* power of two (6.0, 7.5, 10.0, 40.0)
FDiv(x, y) ==
  LET t == BigLowestBit(y.m)
      q == FDivSmall(x, BigToNat(BigShr(y.m, t)))
  IN  IF q = FZero THEN FZero ELSE [m |-> q.m, e |-> q.e - (y.e + t)]

\* x + y
FAdd(x, y) ==
  IF x = FZero THEN y
  ELSE IF y = FZero THEN x
  ELSE LET emin == Min(x.e, y.e)
       IN  RoundNE(BigAdd(BigShl(x.m, x.e - emin), BigShl(y.m, y.e - emin)),
                   emin, FALSE)

\* x < y
FLess(x, y) ==
  IF y = FZero THEN FALSE
  ELSE IF x = FZero THEN TRUE
  ELSE IF x.e # y.e THEN x.e < y.e
  ELSE BigLess(x.m, y.m)

\* floor of the exact value n * 2^e, and whether it has a fraction
IntPart(n, e) ==
  IF e >= 0 THEN BigToNat(BigShl(n, e)) ELSE BigToNat(BigShr(n, -e))

HasFraction(n, e) == e < 0 /\ BigLowNonzero(n, -e)

\* math.ceil(x)
FCeil(x) == IntPart(x.m, x.e) + (IF HasFraction(x.m, x.e) THEN 1 ELSE 0)

\* round(x, 1) in tenths: the exact binary value of x to the nearest tenth,
\* an exact tie to the even tenth
FRoundTenths(x) ==
  LET t    == BigMulSmall(x.m, 10)
      half == x.e < 0 /\ BigBit(t, -x.e - 1) = 1
      rest == x.e < 0 /\ BigLowNonzero(t, -x.e - 1)
      ip   == IntPart(t, x.e)
  IN  ip + (IF half /\ (rest \/ ip % 2 = 1) THEN 1 ELSE 0)

\* x - y for x >= y
RECURSIVE BigSubFrom(_, _, _, _)
BigSubFrom(a, b, i, borrow) ==
  IF i > Len(a) THEN <<>>
  ELSE LET t == a[i] - (IF i <= Len(b) THEN b[i] ELSE 0) - borrow
       IN  <<t % Base>> \o BigSubFrom(a, b, i + 1, IF t < 0 THEN 1 ELSE 0)

FSub(x, y) ==
  IF y = FZero THEN x
  ELSE LET emin == Min(x.e, y.e)
       IN  RoundNE(BigNorm(BigSubFrom(BigShl(x.m, x.e - emin),
                                      BigShl(y.m, y.e - emin), 1, 0)),
                   emin, FALSE)

\* the float nearest n / 10: what a decimal with one digit is in Python
Tenth(n) == FDivSmall(FromInt(n), 10)

(***************************************************************************)
(* Dates: <<year, month, day>>; None is <<>>.                              *)
(***************************************************************************)
None == <<>>

DateLT(a, b) ==
  \/ a[1] < b[1]
  \/ a[1] = b[1] /\ a[2] < b[2]
  \/ a[1] = b[1] /\ a[2] = b[2] /\ a[3] < b[3]

DateLE(a, b) == a = b \/ DateLT(a, b)

IsLeap(y) == (y % 4 = 0 /\ y % 100 # 0) \/ y % 400 = 0

\* calendar.monthrange(y, m)[1]
DaysInMonth(y, m) ==
  IF m = 2 THEN (IF IsLeap(y) THEN 28 + 1 ELSE 28)
  ELSE IF m \in {4, 6, 9, 11} THEN 30 ELSE 31

\* d.replace(day=1)
FirstOfMonth(d) == <<d[1], d[2], 1>>

\* d + relativedelta(months=k), k of either sign: the day is cut down to the
\* last day of the month reached
AddMonths(d, k) ==
  LET total == d[1] * 12 + (d[2] - 1) + k
      y     == total \div 12
      m     == (total % 12) + 1
  IN  <<y, m, Min(d[3], DaysInMonth(y, m))>>

\* d.replace(day=1) - datetime.timedelta(days=1)
LastDayOfPrevMonth(d) ==
  LET p == AddMonths(FirstOfMonth(d), -1)
  IN  <<p[1], p[2], DaysInMonth(p[1], p[2])>>

\* relativedelta(dt1, dt2): the month count is stepped towards zero until
\* dt2 + months no longer passes dt1; years * 12 + months is that count
RECURSIVE StepMonths(_, _, _)
StepMonths(dt1, dt2, months) ==
  LET dtm == AddMonths(dt2, months)
  IN  IF DateLT(dt1, dt2)
      THEN (IF DateLT(dtm, dt1) THEN StepMonths(dt1, dt2, months + 1) ELSE months)
      ELSE (IF DateLT(dt1, dtm) THEN StepMonths(dt1, dt2, months - 1) ELSE months)

ElapsedMonths(target_date, opening_date) ==
  StepMonths(target_date, opening_date,
             (target_date[1] - opening_date[1]) * 12
               + (target_date[2] - opening_date[2]))

(***************************************************************************)
(* Helper functions of the application                                     *)
(***************************************************************************)
\* a rounding to the nearest tenth in place of the rounding up
round_decimal_1(value) == Tenth(FRoundTenths(value))

\* ceil_decimal_1(value) = math.ceil(value * 10) / 10
ceil_decimal_1(value) == Tenth(FCeil(FMulSmall(value, 10)))

\* the test with the end date itself taken as outside the period
is_addon_active_before_end(target_date, history_list) ==
  \E i \in 1..Len(history_list) :
     LET start == history_list[i].start
         end   == history_list[i].end
     IN  /\ start # None
         /\ IF end = None THEN DateLE(start, target_date)
            ELSE DateLE(start, target_date) /\ DateLT(target_date, end)

\* is_addon_active(target_date, history_list); a period is
\* [start |-> date or None, end |-> date or None]
is_addon_active(target_date, history_list) ==
  \E i \in 1..Len(history_list) :
     LET start == history_list[i].start
         end   == history_list[i].end
     IN  /\ start # None
         /\ IF end = None THEN DateLE(start, target_date)
            ELSE DateLE(start, target_date) /\ DateLE(target_date, end)

\* sorted(history_list, key=start): a stable sort
RECURSIVE InsertByStart(_, _)
InsertByStart(sorted, item) ==
  IF sorted = <<>> THEN <<item>>
  ELSE IF DateLT(item.start, sorted[Len(sorted)].start)
       THEN Append(InsertByStart(SubSeq(sorted, 1, Len(sorted) - 1), item),
                   sorted[Len(sorted)])
       ELSE Append(sorted, item)

RECURSIVE SortByStart(_)
SortByStart(hist) ==
  IF hist = <<>> THEN <<>>
  ELSE InsertByStart(SortByStart(SubSeq(hist, 1, Len(hist) - 1)), hist[Len(hist)])

DefaultCapacity == 20

\* the loop of get_capacity_at_date over the sorted history, from item i
RECURSIVE CapacityScan(_, _, _, _)
CapacityScan(sorted_hist, target_date, i, current_cap) ==
  IF i > Len(sorted_hist) THEN current_cap
  ELSE IF DateLE(sorted_hist[i].start, target_date)
       THEN CapacityScan(sorted_hist, target_date, i + 1, sorted_hist[i].count)
       ELSE current_cap

\* the loop run over the history in the order it was given
get_capacity_unsorted(target_date, history_list) ==
  IF history_list = <<>> THEN DefaultCapacity
  ELSE CapacityScan(history_list, target_date, 1, DefaultCapacity)

\* get_capacity_at_date raises TypeError: the history is not empty and an
\* item's start is None, which neither sorted() nor <= can compare with a date
capacity_raises(history_list) ==
  /\ history_list # <<>>
  /\ \E i \in 1..Len(history_list) : history_list[i].start = None

\* get_capacity_at_date(target_date, history_list) where it returns; an item
\* is [start |-> date, count |-> capacity]
get_capacity_at_date(target_date, history_list) ==
  IF history_list = <<>> THEN DefaultCapacity
  ELSE CapacityScan(SortByStart(history_list), target_date, 1, DefaultCapacity)

(***************************************************************************)
(* Recurring holidays: rows [name, start_month, start_day, end_month,      *)
(* end_day] (名称, 開始月, 開始日, 終了月, 終了日).  A month or day cell is *)
(* [kind, v]: "int" a number v; "empty" the text ""; "text" a text that is *)
(* no number; "nan" a NaN of a numeric column; "null" None; "missing" the  *)
(* row has no such column.                                                 *)
(***************************************************************************)
Num(n) == [kind |-> "int", v |-> n]

Cell(kind) == [kind |-> kind, v |-> 0]

HolidayRow(name, sm, sd, em, ed) ==
  [name |-> name, start_month |-> sm, start_day |-> sd,
   end_month |-> em, end_day |-> ed]

\* what int(row[column]) does with a cell: "none" when it gives the number
IntError(cell) ==
  CASE cell.kind = "int"     -> "none"
    [] cell.kind = "missing" -> "KeyError"
    [] cell.kind = "null"    -> "TypeError"
    [] OTHER                 -> "ValueError"

\* the first exception of the four conversions of a row, in their order
RowError(row) ==
  LET cells == <<row.start_month, row.start_day, row.end_month, row.end_day>>
      bad   == {i \in 1..4 : IntError(cells[i]) # "none"}
  IN  IF bad = {} THEN "none"
      ELSE IntError(cells[CHOOSE i \in bad : \A j \in bad : i <= j])

\* a <= b for (month, day) tuples
PairLE(a, b) == a[1] < b[1] \/ (a[1] = b[1] /\ a[2] <= b[2])

\* the row's range taken as never running over the end of the year
RowCoversPlain(row, t_md) ==
  LET s_md == <<row.start_month.v, row.start_day.v>>
      e_md == <<row.end_month.v, row.end_day.v>>
  IN  PairLE(s_md, t_md) /\ PairLE(t_md, e_md)

\* the test of one row whose four cells are numbers
RowCovers(row, t_md) ==
  LET s_md == <<row.start_month.v, row.start_day.v>>
      e_md == <<row.end_month.v, row.end_day.v>>
  IN  IF PairLE(s_md, e_md)
      THEN PairLE(s_md, t_md) /\ PairLE(t_md, e_md)
      ELSE PairLE(s_md, t_md) \/ PairLE(t_md, e_md)

\* the loop of is_special_holiday_recurring from row i
RECURSIVE HolidayScan(_, _, _)
HolidayScan(t_md, holiday_df, i) ==
  IF i > Len(holiday_df)
  THEN [status |-> "returned", is_sp |-> FALSE, name |-> ""]
  ELSE LET row == holiday_df[i]
           err == RowError(row)
       IN  IF err = "ValueError" THEN HolidayScan(t_md, holiday_df, i + 1)
           ELSE IF err # "none" THEN [status |-> "raised", error |-> err]
           ELSE IF RowCovers(row, t_md)
           THEN [status |-> "returned", is_sp |-> TRUE, name |-> row.name]
           ELSE HolidayScan(t_md, holiday_df, i + 1)

\* is_special_holiday_recurring(target_date, holiday_df)
is_special_holiday_recurring(target_date, holiday_df) ==
  HolidayScan(<<target_date[2], target_date[3]>>, holiday_df, 1)

(***************************************************************************)
(* Monthly records: rows [ym |-> <<year, month>>, users, days]             *)
(* (the columns 年月, 延べ利用者数, 開所日数)                              *)
(***************************************************************************)
\* the date a row's 年月 text ("2025年4月") is parsed to: the month's first day
RecordDate(row) == <<row.ym[1], row.ym[2], 1>>

RECURSIVE SumOf(_, _)
SumOf(rows, col) ==
  IF rows = <<>> THEN 0
  ELSE (IF col = "users" THEN rows[1].users ELSE rows[1].days)
       + SumOf(Tail(rows), col)

\* rows.sort_values("dt_date")
RECURSIVE InsertByDate(_, _)
InsertByDate(sorted, row) ==
  IF sorted = <<>> THEN <<row>>
  ELSE IF DateLT(RecordDate(row), RecordDate(sorted[Len(sorted)]))
       THEN Append(InsertByDate(SubSeq(sorted, 1, Len(sorted) - 1), row),
                   sorted[Len(sorted)])
       ELSE Append(sorted, row)

RECURSIVE SortByDate(_)
SortByDate(rows) ==
  IF rows = <<>> THEN <<>>
  ELSE InsertByDate(SortByDate(SubSeq(rows, 1, Len(rows) - 1)), rows[Len(rows)])

\* the literal 0.9
PointNine == Tenth(9)

\* the first and last day of the fiscal year (April to March) before the one
\* that holds target_date
PrevStart(target_date) ==
  <<(IF target_date[2] >= 4 THEN target_date[1] ELSE target_date[1] - 1) - 1, 4, 1>>

PrevEnd(target_date) == <<PrevStart(target_date)[1] + 1, 3, 31>>

\* the trailing window [actual_start, end_search]
EndSearch(target_date) == LastDayOfPrevMonth(target_date)

ActualStart(target_date, opening_date) ==
  LET start_search_12 == AddMonths(EndSearch(target_date), -11)
  IN  IF DateLT(start_search_12, opening_date) THEN FirstOfMonth(opening_date)
      ELSE start_search_12

\* the facility opened strictly before the prior fiscal year began
is_experienced_strict(target_date, opening_date) ==
  DateLT(opening_date, PrevStart(target_date))

\* is_experienced: the facility was open through the whole prior fiscal year
is_experienced(target_date, opening_date) ==
  DateLE(opening_date, PrevStart(target_date))

\* df_prev: the rows of the prior fiscal year
df_prev(target_date, records_df) ==
  SelectSeq(records_df,
            LAMBDA r : DateLE(PrevStart(target_date), RecordDate(r))
                       /\ DateLE(RecordDate(r), PrevEnd(target_date)))

\* df_recent: the rows of the trailing window, by date
df_recent(target_date, opening_date, records_df) ==
  SortByDate(SelectSeq(records_df,
               LAMBDA r : DateLE(ActualStart(target_date, opening_date), RecordDate(r))
                          /\ DateLE(RecordDate(r), EndSearch(target_date))))

\* target_df: the rows the average is taken over
target_df(target_date, opening_date, records_df) ==
  IF is_experienced(target_date, opening_date)
     /\ df_prev(target_date, records_df) # <<>>
  THEN df_prev(target_date, records_df)
  ELSE df_recent(target_date, opening_date, records_df)

\* the explanation dict before any rule has filled it
EmptyExplanation ==
  [status |-> "returned", rule_name |-> "", period |-> None,
   details_df |-> None, total_users |-> 0, total_days |-> 0, result |-> FZero]

\* the tail without its test for an empty selection
AverageUnchecked(rule_text, period, rows) ==
  IF SumOf(rows, "days") = 0
  THEN [status |-> "raised", error |-> "UnboundLocalError"]
  ELSE [status |-> "returned", rule_name |-> rule_text, period |-> period,
        details_df |-> rows,
        total_users |-> SumOf(rows, "users"), total_days |-> SumOf(rows, "days"),
        result |-> ceil_decimal_1(FDivSmall(FromInt(SumOf(rows, "users")),
                                            SumOf(rows, "days")))]

\* the tail of calculate_average_users_detail, once target_df is selected
Average(rule_text, period, rows) ==
  LET total_users == SumOf(rows, "users")
      total_days  == SumOf(rows, "days")
  IN  IF rows = <<>>
      THEN [EmptyExplanation EXCEPT !.rule_name = "insufficient_period_data"]
      ELSE IF total_days = 0
      \* result = 0.0, and the formula text then reads raw_avg, which was
      \* never assigned
      THEN [status |-> "raised", error |-> "UnboundLocalError"]
      ELSE [status |-> "returned", rule_name |-> rule_text, period |-> period,
            details_df |-> rows,
            total_users |-> total_users, total_days |-> total_days,
            result |-> ceil_decimal_1(FDivSmall(FromInt(total_users), total_days))]

\* calculate_average_users_detail(target_date, opening_date, capacity_history,
\* records_df).  rule_name is the kind of the rule text:
\*   "new_facility"             【新規開所特例】
\*   "no_records"               実績データなし
\*   "prior_fiscal_year"        【前年度実績】
\*   "trailing_window"          【直近実績】
\*   "insufficient_period_data" 実績不足
calculate_average_users_detail(target_date, opening_date, capacity_history, records_df) ==
  LET elapsed_months   == ElapsedMonths(target_date, opening_date)
      current_capacity == get_capacity_at_date(target_date, capacity_history)
  IN  IF capacity_raises(capacity_history)
      THEN [status |-> "raised", error |-> "TypeError"]
      ELSE IF elapsed_months < 6
      THEN [EmptyExplanation EXCEPT
              !.rule_name = "new_facility",
              !.result = ceil_decimal_1(FMulSmall(PointNine, current_capacity))]
      ELSE IF records_df = <<>>
      THEN [EmptyExplanation EXCEPT !.rule_name = "no_records"]
      ELSE IF is_experienced(target_date, opening_date)
              /\ df_prev(target_date, records_df) # <<>>
      THEN Average("prior_fiscal_year",
                   <<PrevStart(target_date), PrevEnd(target_date)>>,
                   target_df(target_date, opening_date, records_df))
      ELSE Average("trailing_window",
                   <<ActualStart(target_date, opening_date), EndSearch(target_date)>>,
                   target_df(target_date, opening_date, records_df))

(***************************************************************************)
(* Staff master: rows [name, primary, secondary, employment, total_hours,  *)
(* sub_hours, hire, resign] (名前, 職種(主), 職種(副), 雇用形態,           *)
(* 契約時間(週), 兼務時間(週), 入社日, 退職日).  Hours are whole numbers,  *)
(* which floats hold exactly; employment is "regular" 常勤 or "part" 非常勤.*)
(* Roles: "wage_instructor" 目標工賃達成指導員, "cook" 調理員,             *)
(* "driver" 運転手, "vocational_instructor" 職業指導員,                    *)
(* "life_supporter" 生活支援員, "manager" 管理者, "none" なし.             *)
(***************************************************************************)
MonthEnd(d) == <<d[1], d[2], DaysInMonth(d[1], d[2])>>

\* the roles left out, with the meal and the transport add-ons taken for each
\* other
exclude_targets_swapped(settings, target_date) ==
  (IF is_addon_active(target_date, settings.wage_history) THEN {}
   ELSE {"wage_instructor"})
  \cup (IF is_addon_active(target_date, settings.transport_history) THEN {}
        ELSE {"cook"})
  \cup (IF is_addon_active(target_date, settings.lunch_history) THEN {}
        ELSE {"driver"})

\* the roles whose holders are left out while the add-on is not active
exclude_targets(settings, target_date) ==
  (IF is_addon_active(target_date, settings.wage_history) THEN {}
   ELSE {"wage_instructor"})
  \cup (IF is_addon_active(target_date, settings.lunch_history) THEN {}
        ELSE {"cook"})
  \cup (IF is_addon_active(target_date, settings.transport_history) THEN {}
        ELSE {"driver"})

\* the filter with a member resigning on the target date itself taken as gone
get_active_staff_df_resigned_on(original_df, settings, target_date_obj) ==
  IF target_date_obj = None THEN original_df
  ELSE SelectSeq(original_df,
         LAMBDA row :
           LET is_hired    == ~(row.hire # None
                                /\ DateLT(MonthEnd(target_date_obj), row.hire))
               is_resigned == row.resign # None
                              /\ DateLE(row.resign, target_date_obj)
           IN  /\ is_hired /\ ~is_resigned
               /\ row.primary \notin exclude_targets(settings, target_date_obj))

\* get_active_staff_df(original_df, settings, target_date_obj)
get_active_staff_df(original_df, settings, target_date_obj) ==
  IF target_date_obj = None THEN original_df
  ELSE SelectSeq(original_df,
         LAMBDA row :
           LET is_hired    == ~(row.hire # None
                                /\ DateLT(MonthEnd(target_date_obj), row.hire))
               is_resigned == row.resign # None
                              /\ DateLT(row.resign, target_date_obj)
           IN  /\ is_hired /\ ~is_resigned
               /\ row.primary \notin exclude_targets(settings, target_date_obj))

\* the roles counted towards the staffing requirement
target_roles == {"vocational_instructor", "life_supporter", "wage_instructor"}

\* the hours of one staff row that count: main_hours for a counted primary
\* role plus sub_hours for a counted secondary role
staff_target_hours(staff) ==
  LET main_hours == Max(0, staff.total_hours - staff.sub_hours)
  IN  (IF staff.primary \in target_roles THEN main_hours ELSE 0)
      + (IF staff.secondary \in target_roles THEN staff.sub_hours ELSE 0)

\* fte of one staff row: the counted hours over the full-time hours, at most 1.0
staff_fte(staff, fulltime_weekly_hours) ==
  LET fte == FDiv(FromInt(staff_target_hours(staff)), FromInt(fulltime_weekly_hours))
  IN  IF FLess(FromInt(1), fte) THEN FromInt(1) ELSE fte

\* the loop that adds up actual_fte over current_staff_df
RECURSIVE SumFte(_, _, _)
SumFte(staff_df, fulltime_weekly_hours, i) ==
  IF i = 0 THEN FZero
  ELSE LET before == SumFte(staff_df, fulltime_weekly_hours, i - 1)
       IN  IF staff_target_hours(staff_df[i]) > 0
           THEN FAdd(before, staff_fte(staff_df[i], fulltime_weekly_hours))
           ELSE before

\* the list details: one entry for each row whose counted hours are positive
StaffDetails(staff_df, fulltime_weekly_hours) ==
  LET counted == SelectSeq(staff_df, LAMBDA staff : staff_target_hours(staff) > 0)
  IN  [i \in 1..Len(counted) |->
         [name  |-> counted[i].name,
          fte   |-> staff_fte(counted[i], fulltime_weekly_hours),
          hours |-> staff_target_hours(counted[i])]]

\* required_staff = ceil_decimal_1(avg_users / service_ratio + add_staff)
required_staff(avg_users, service_ratio, wage_active) ==
  ceil_decimal_1(FAdd(FDiv(avg_users, Tenth(service_ratio)),
                      IF wage_active THEN FromInt(1) ELSE FZero))

\* the staffing check of the calculation screen: what it shows
StaffingCheck(avg_users, settings, staff_db, calc_target_date) ==
  LET wage_active      == is_addon_active(calc_target_date, settings.wage_history)
      required         == required_staff(avg_users, settings.service_ratio, wage_active)
      current_staff_df == get_active_staff_df(staff_db, settings, calc_target_date)
      fte_sum          == SumFte(current_staff_df, settings.fulltime_hours,
                                 Len(current_staff_df))
      actual_fte       == Tenth(FRoundTenths(fte_sum))
  IN  [status         |-> "checked",
       wage_active    |-> wage_active,
       required_staff |-> required,
       fte_sum        |-> fte_sum,
       actual_fte     |-> actual_fte,
       current_staff_df |-> current_staff_df,
       details        |-> StaffDetails(current_staff_df, settings.fulltime_hours),
       verdict        |-> IF ~FLess(actual_fte, required) THEN "sufficient"
                          ELSE "short",
       shortfall      |-> IF ~FLess(actual_fte, required) THEN FZero
                          ELSE Tenth(FRoundTenths(FSub(required, actual_fte)))]

(***************************************************************************)
(* The shift screen: the days of the picked month, the days the facility   *)
(* is closed, and the draft.  A draft is None or a table: columns holds   *)
(* the day labels after the name column, each row a name and one cell per  *)
(* column.                                                                 *)
(***************************************************************************)
\* jp_days: Monday first
jp_days == <<"mon", "tue", "wed", "thu", "fri", "sat", "sun">>

\* the days of year y before its month m
RECURSIVE DaysBeforeMonth(_, _)
DaysBeforeMonth(y, m) ==
  IF m = 1 THEN 0 ELSE DaysBeforeMonth(y, m - 1) + DaysInMonth(y, m - 1)

\* the days from 2024-01-01, a Monday, to the first day of year y
RECURSIVE DaysBeforeYear(_)
DaysBeforeYear(y) ==
  IF y <= 2024 THEN 0
  ELSE DaysBeforeYear(y - 1) + (IF IsLeap(y - 1) THEN 366 ELSE 365)

\* d.weekday(): 0 is Monday
weekday(d) ==
  (DaysBeforeYear(d[1]) + DaysBeforeMonth(d[1], d[2]) + d[3] - 1) % 7

\* the national holidays of 2025 that jpholiday knows
JpHolidays ==
  { <<2025, 1, 1>>, <<2025, 1, 13>>, <<2025, 2, 11>>, <<2025, 2, 23>>,
    <<2025, 2, 24>>, <<2025, 3, 20>>, <<2025, 4, 29>>, <<2025, 5, 3>>,
    <<2025, 5, 4>>, <<2025, 5, 5>>, <<2025, 5, 6>>, <<2025, 7, 21>>,
    <<2025, 8, 11>>, <<2025, 9, 15>>, <<2025, 9, 23>>, <<2025, 10, 13>>,
    <<2025, 11, 3>>, <<2025, 11, 23>>, <<2025, 11, 24>> }

\* jpholiday.is_holiday(d)
jpholiday_is_holiday(d) == d \in JpHolidays

\* pd.date_range(start_dt, end_dt): the days of the month of shift_month
dates(month) ==
  [i \in 1..DaysInMonth(month[1], month[2]) |-> <<month[1], month[2], i>>]

\* f"{d.day}({jp_days[d.weekday()]})"
d_label(d) == <<d[3], jp_days[weekday(d) + 1]>>

\* date_cols
date_cols(month) == [i \in DOMAIN dates(month) |-> d_label(dates(month)[i])]

\* the test of the closure loop reaches is_special_holiday_recurring for d
ReachesRecurring(d, s) ==
  /\ jp_days[weekday(d) + 1] \notin s.closed_days
  /\ ~(s.close_on_holiday /\ jpholiday_is_holiday(d))

\* the closure loop raises: is_special_holiday_recurring does on a day
holiday_raises(month, s, holidays) ==
  \E i \in DOMAIN dates(month) :
     /\ ReachesRecurring(dates(month)[i], s)
     /\ is_special_holiday_recurring(dates(month)[i], holidays).status = "raised"

\* is_holiday of one day of the closure loop
is_holiday(d, s, holidays) ==
  IF jp_days[weekday(d) + 1] \in s.closed_days THEN TRUE
  ELSE IF s.close_on_holiday /\ jpholiday_is_holiday(d) THEN TRUE
  ELSE is_special_holiday_recurring(d, holidays).is_sp

\* holiday_cols: the labels of the days the facility is closed
holiday_cols(month, s, holidays) ==
  { d_label(dates(month)[i]) :
      i \in {j \in DOMAIN dates(month) : is_holiday(dates(month)[j], s, holidays)} }

\* row_data of one member of the staff: "closed" is 休, "day_off" is 公休
row_data(staff, month, closed_cols) ==
  [name  |-> staff.name,
   cells |-> [i \in DOMAIN dates(month) |->
                LET d == dates(month)[i]
                IN  IF d_label(d) \in closed_cols
                    THEN "closed"
                    ELSE IF jp_days[weekday(d) + 1] \in staff.fixed_off
                    THEN "day_off"
                    ELSE staff.base_shift]]

\* new_df: pd.DataFrame(rows), one row per member of shift_staff_df
new_df(shift_staff_df, month, s, holidays) ==
  LET closed_cols == holiday_cols(month, s, holidays)
  IN  [columns |-> date_cols(month),
       rows    |-> [k \in DOMAIN shift_staff_df |->
                      row_data(shift_staff_df[k], month, closed_cols)]]

\* the draft as load_data reads it back from the sheet: a sheet without a
\* row is no draft
draft_shift(df) == IF df.rows = <<>> THEN None ELSE df

\* the positions of the columns of the draft that date_cols names
RECURSIVE KeptColumns(_, _, _)
KeptColumns(cols, columns, i) ==
  IF i > Len(cols) THEN <<>>
  ELSE LET hits == {j \in DOMAIN columns : columns[j] = cols[i]}
       IN  (IF hits = {} THEN <<>> ELSE << CHOOSE j \in hits : TRUE >>)
           \o KeptColumns(cols, columns, i + 1)

\* current_df[display_cols]: the name and the columns of the picked month
edited_df(current_df, month) ==
  LET keep == KeptColumns(date_cols(month), current_df.columns, 1)
  IN  [columns |-> [k \in DOMAIN keep |-> current_df.columns[keep[k]]],
       rows    |-> [r \in DOMAIN current_df.rows |->
                      [name  |-> current_df.rows[r].name,
                       cells |-> [k \in DOMAIN keep |->
                                    current_df.rows[r].cells[keep[k]]]]]]

(***************************************************************************)
(* The application: the session state, the selected screen and what the    *)
(* calculation screen shows.  Every widget event ends the running script   *)
(* and runs it again from the top (st.rerun): page = "rerun" until the     *)
(* script has drawn the selected screen.                                   *)
(***************************************************************************)
VARIABLES
  menu,             \* the screen picked in the sidebar
  page,             \* "rerun": the script is about to run; "shown"; "error"
  settings,         \* st.session_state.settings
  monthly_records,  \* st.session_state.monthly_records
  staff_db,         \* st.session_state.staff_db
  calc_target_date, \* the month picked with calc_y / calc_m, as its first day
  calc_result,      \* what calculate_average_users_detail gave this run
  staffing,         \* what the staffing check shows this run
  shift_month,      \* the month picked with shift_y / shift_m, as its first day
  special_holidays_list, \* st.session_state.special_holidays_list
  current_shift_df, \* st.session_state.current_shift_df, the draft
  call              \* a helper function applied on its own: arguments, outcome

vars == <<menu, page, settings, monthly_records, staff_db, calc_target_date,
          calc_result, staffing, shift_month, special_holidays_list,
          current_shift_df, call>>

\* no helper function is being applied on its own
NoCall == [status |-> "none"]

\* default_holidays of load_data ("new_year" is 年末年始)
DefaultHolidays == << HolidayRow("new_year", Num(12), Num(29), Num(1), Num(3)) >>

\* the session after load_data with empty sheets: no draft, the default
\* holidays, and both month pickers on the month of today
FreshSession ==
  /\ shift_month = calc_target_date
  /\ special_holidays_list = DefaultHolidays
  /\ current_shift_df = None
  /\ call = NoCall

NotRendered == [status |-> "not_rendered"]

\* DEFAULT_SETTINGS
DefaultSettings ==
  [opening_date      |-> <<2024, 11, 1>>,
   capacity_history  |-> << [start |-> <<2024, 11, 1>>, count |-> 20] >>,
   wage_history      |-> <<>>,
   lunch_history     |-> <<>>,
   transport_history |-> <<>>,
   service_ratio     |-> 60,
   fulltime_hours    |-> 40,
   closed_days       |-> {"sat", "sun"},
   close_on_holiday  |-> TRUE]

\* one run of the script: the selected screen is drawn from the session state
Render ==
  /\ page = "rerun"
  /\ IF menu = "calc"
     THEN LET res == calculate_average_users_detail(calc_target_date,
                       settings.opening_date, settings.capacity_history,
                       monthly_records)
          IN  /\ calc_result' = res
              /\ IF res.status = "raised"
                 THEN staffing' = NotRendered /\ page' = "error"
                 ELSE /\ staffing' = StaffingCheck(res.result, settings, staff_db,
                                                   calc_target_date)
                      /\ page' = "shown"
              /\ UNCHANGED current_shift_df
     ELSE IF menu = "shift"
     THEN /\ calc_result' = NotRendered
          /\ staffing' = NotRendered
          /\ IF holiday_raises(shift_month, settings, special_holidays_list)
             THEN page' = "error" /\ UNCHANGED current_shift_df
             ELSE /\ page' = "shown"
                  /\ current_shift_df' =
                        IF current_shift_df = None THEN None
                        ELSE edited_df(current_shift_df, shift_month)
     ELSE /\ calc_result' = NotRendered
          /\ staffing' = NotRendered
          /\ page' = "shown"
          /\ UNCHANGED current_shift_df
  /\ UNCHANGED <<menu, settings, monthly_records, staff_db, calc_target_date>>
  /\ UNCHANGED <<shift_month, special_holidays_list, call>>

\* a widget event: the running script ends, what it drew is discarded and the
\* script runs again
Rerun ==
  /\ page' = "rerun"
  /\ calc_result' = NotRendered
  /\ staffing' = NotRendered

\* the sidebar radio
SelectMenu(m) ==
  /\ page # "rerun"
  /\ m # menu
  /\ menu' = m
  /\ Rerun
  /\ UNCHANGED <<settings, monthly_records, staff_db, calc_target_date>>
  /\ UNCHANGED <<shift_month, special_holidays_list, current_shift_df, call>>

\* the selectboxes calc_y / calc_m of the calculation screen
SelectCalcTarget(y, m) ==
  /\ page # "rerun"
  /\ menu = "calc"
  /\ calc_target_date # <<y, m, 1>>
  /\ calc_target_date' = <<y, m, 1>>
  /\ Rerun
  /\ UNCHANGED <<menu, settings, monthly_records, staff_db>>
  /\ UNCHANGED <<shift_month, special_holidays_list, current_shift_df, call>>

\* the save that adds the new row and leaves the old row of the month in place
SaveRecordAppend(ym, users_input, temp_open_days) ==
  /\ page # "rerun"
  /\ menu = "calc"
  /\ monthly_records' = Append(monthly_records,
                               [ym |-> ym, users |-> users_input,
                                days |-> temp_open_days])
  /\ Rerun
  /\ UNCHANGED <<menu, settings, staff_db, calc_target_date>>
  /\ UNCHANGED <<shift_month, special_holidays_list, current_shift_df, call>>

\* the button 実績を保存: the row of target_ym is replaced by the new row
SaveRecord(ym, users_input, temp_open_days) ==
  /\ page # "rerun"
  /\ menu = "calc"
  /\ LET df_recs == SelectSeq(monthly_records, LAMBDA r : r.ym # ym)
         new_row == [ym |-> ym, users |-> users_input, days |-> temp_open_days]
     IN  monthly_records' = Append(df_recs, new_row)
  /\ Rerun
  /\ UNCHANGED <<menu, settings, staff_db, calc_target_date>>
  /\ UNCHANGED <<shift_month, special_holidays_list, current_shift_df, call>>

\* the sidebar form 設定を保存
SaveSettings(s_open_date, s_ratio_val) ==
  /\ page # "rerun"
  /\ settings' = [settings EXCEPT !.opening_date = s_open_date,
                                  !.service_ratio = s_ratio_val]
  /\ Rerun
  /\ UNCHANGED <<menu, monthly_records, staff_db, calc_target_date>>
  /\ UNCHANGED <<shift_month, special_holidays_list, current_shift_df, call>>

\* the sidebar form with the closure widgets changed as well
SaveSettingsForm(s_open_date, s_closed_days, s_close_holiday, s_ratio_val) ==
  /\ page # "rerun"
  /\ settings' = [settings EXCEPT !.opening_date = s_open_date,
                                  !.closed_days = s_closed_days,
                                  !.close_on_holiday = s_close_holiday,
                                  !.service_ratio = s_ratio_val]
  /\ Rerun
  /\ UNCHANGED <<menu, monthly_records, staff_db, calc_target_date>>
  /\ UNCHANGED <<shift_month, special_holidays_list, current_shift_df, call>>

\* the button 従業員情報を保存 of the staff master: the edited table replaces
\* the master, a 常勤 row taking the full-time hours as its contracted hours
SaveStaff(edited_staff_df) ==
  /\ page # "rerun"
  /\ menu = "staff_master"
  /\ staff_db' = [idx \in 1..Len(edited_staff_df) |->
                    IF edited_staff_df[idx].employment = "regular"
                    THEN [edited_staff_df[idx] EXCEPT
                            !.total_hours = settings.fulltime_hours]
                    ELSE edited_staff_df[idx]]
  /\ Rerun
  /\ UNCHANGED <<menu, settings, monthly_records, calc_target_date>>
  /\ UNCHANGED <<shift_month, special_holidays_list, current_shift_df, call>>

\* df_to_list of the add-on editor: rows without a start are left out
df_to_list(df) == SelectSeq(df, LAMBDA row : row.start # None)

\* the button 加算設定を保存 of the master screen
SaveAddons(new_wage_df, new_trans_df, new_lunch_df) ==
  /\ page # "rerun"
  /\ menu = "master"
  /\ settings' = [settings EXCEPT !.wage_history = df_to_list(new_wage_df),
                                  !.transport_history = df_to_list(new_trans_df),
                                  !.lunch_history = df_to_list(new_lunch_df)]
  /\ Rerun
  /\ UNCHANGED <<menu, monthly_records, staff_db, calc_target_date>>
  /\ UNCHANGED <<shift_month, special_holidays_list, current_shift_df, call>>

(***************************************************************************)
(* Specification of the utilization estimator: the opening date, the       *)
(* capacity history, the records and the target month vary.                *)
(***************************************************************************)
MaxRecords == 2

AvgOpenings ==
  {<<2024, 4, 1>>, <<2024, 5, 1>>, <<2024, 5, 31>>, <<2024, 6, 15>>, <<2024, 11, 1>>}

AvgTargets == {<<2025, 5>>, <<2025, 2>>}

AvgMonths == {<<2024, 4>>, <<2024, 5>>, <<2024, 10>>, <<2025, 4>>, <<2025, 5>>}

\* <<延べ利用者数, 開所日数>> entered for a month
AvgValues == {<<84, 20>>, <<451, 22>>, <<7, 0>>}

\* the default staff master of load_data
DefaultStaff ==
  << [name |-> "A", primary |-> "manager", secondary |-> "none",
      employment |-> "regular", total_hours |-> 40, sub_hours |-> 0,
      hire |-> <<2024, 4, 1>>, resign |-> None,
      fixed_off |-> {"sat", "sun"}, base_shift |-> "A"] >>

InitAvg ==
  /\ menu = "users_master"
  /\ page = "rerun"
  /\ settings = DefaultSettings
  /\ monthly_records = <<>>
  /\ staff_db = DefaultStaff
  /\ calc_target_date \in {<<t[1], t[2], 1>> : t \in AvgTargets}
  /\ calc_result = NotRendered
  /\ staffing = NotRendered
  /\ FreshSession

HasMonth(records, ym) == \E i \in 1..Len(records) : records[i].ym = ym

NextAvg ==
  \/ Render
  \/ SelectMenu("calc")
  \/ \E t \in AvgTargets : SelectCalcTarget(t[1], t[2])
  \/ \E ym \in AvgMonths, v \in AvgValues :
        /\ Len(monthly_records) < MaxRecords \/ HasMonth(monthly_records, ym)
        /\ SaveRecord(ym, v[1], v[2])
  \/ \E o \in AvgOpenings : SaveSettings(o, settings.service_ratio)

SpecAvg == InitAvg /\ [][NextAvg]_vars

(***************************************************************************)
(* Specification of the new-facility rule: the capacity history varies.    *)
(***************************************************************************)
CapHistories ==
  { <<>>,
    << [start |-> <<2024, 11, 1>>, count |-> 20] >>,
    << [start |-> <<2025, 1, 1>>, count |-> 21],
       [start |-> <<2024, 11, 1>>, count |-> 20] >>,
    << [start |-> <<2024, 11, 1>>, count |-> 20],
       [start |-> <<2025, 3, 1>>, count |-> 30] >> }

CapOpenings == {<<2024, 11, 1>>, <<2024, 5, 1>>}

CapTargets == {<<2025, 2>>, <<2025, 3>>, <<2025, 4>>}

CapMonths == {<<2025, 1>>}

InitCap ==
  /\ menu = "users_master"
  /\ page = "rerun"
  /\ settings \in {[DefaultSettings EXCEPT !.capacity_history = h] :
                     h \in CapHistories}
  /\ monthly_records = <<>>
  /\ staff_db = DefaultStaff
  /\ calc_target_date \in {<<t[1], t[2], 1>> : t \in CapTargets}
  /\ calc_result = NotRendered
  /\ staffing = NotRendered
  /\ FreshSession

NextCap ==
  \/ Render
  \/ SelectMenu("calc")
  \/ \E t \in CapTargets : SelectCalcTarget(t[1], t[2])
  \/ \E ym \in CapMonths, v \in AvgValues :
        /\ Len(monthly_records) < MaxRecords \/ HasMonth(monthly_records, ym)
        /\ SaveRecord(ym, v[1], v[2])
  \/ \E o \in CapOpenings : SaveSettings(o, settings.service_ratio)

SpecCap == InitCap /\ [][NextCap]_vars

(***************************************************************************)
(* Specification of the staffing check: the staff master, the service      *)
(* ratio, the wage add-on, the records and the target month vary.          *)
(***************************************************************************)
MaxStaff == 2

StaffRows ==
  << [name |-> "A", primary |-> "vocational_instructor",
      secondary |-> "life_supporter", employment |-> "regular",
      total_hours |-> 40, sub_hours |-> 5,
      hire |-> <<2024, 11, 1>>, resign |-> None],
     [name |-> "B", primary |-> "life_supporter", secondary |-> "none",
      employment |-> "part", total_hours |-> 39, sub_hours |-> 0,
      hire |-> <<2024, 11, 1>>, resign |-> None],
     [name |-> "C", primary |-> "manager", secondary |-> "life_supporter",
      employment |-> "part", total_hours |-> 20, sub_hours |-> 30,
      hire |-> <<2024, 11, 1>>, resign |-> None],
     [name |-> "D", primary |-> "vocational_instructor",
      secondary |-> "life_supporter", employment |-> "part",
      total_hours |-> 60, sub_hours |-> 20,
      hire |-> <<2024, 11, 1>>, resign |-> None],
     [name |-> "E", primary |-> "wage_instructor", secondary |-> "none",
      employment |-> "part", total_hours |-> 20, sub_hours |-> 0,
      hire |-> <<2024, 11, 1>>, resign |-> None] >>

\* the rows of StaffRows at the indices of picked, in their order
RECURSIVE RowsAt(_, _)
RowsAt(picked, i) ==
  IF i > Len(StaffRows) THEN <<>>
  ELSE (IF i \in picked THEN <<StaffRows[i]>> ELSE <<>>) \o RowsAt(picked, i + 1)

\* the tables the staff editor hands over
StaffTables ==
  {RowsAt(picked, 1) :
     picked \in {q \in SUBSET (1..Len(StaffRows)) : Cardinality(q) <= MaxStaff}}

StaffRatios == {60, 75, 100}

StaffWageHistories ==
  {<<>>, << [start |-> <<2025, 4, 1>>, end |-> None] >>}

StaffTargets == {<<2025, 6>>, <<2025, 3>>}

StaffMonths == {<<2025, 4>>, <<2025, 5>>}

StaffValues == {<<84, 20>>, <<120, 20>>}

InitStaff ==
  /\ menu = "users_master"
  /\ page = "rerun"
  /\ settings \in {[DefaultSettings EXCEPT !.wage_history = h] :
                     h \in StaffWageHistories}
  /\ monthly_records = <<>>
  /\ staff_db = DefaultStaff
  /\ calc_target_date \in {<<t[1], t[2], 1>> : t \in StaffTargets}
  /\ calc_result = NotRendered
  /\ staffing = NotRendered
  /\ FreshSession

NextStaff ==
  \/ Render
  \/ \E m \in {"calc", "staff_master"} : SelectMenu(m)
  \/ \E t \in StaffTargets : SelectCalcTarget(t[1], t[2])
  \/ \E ym \in StaffMonths, v \in StaffValues :
        /\ Len(monthly_records) < MaxRecords \/ HasMonth(monthly_records, ym)
        /\ SaveRecord(ym, v[1], v[2])
  \/ \E r \in StaffRatios : SaveSettings(settings.opening_date, r)
  \/ \E t \in StaffTables : SaveStaff(t)

SpecStaff == InitStaff /\ [][NextStaff]_vars

(***************************************************************************)
(* Specification of the active-staff filter: hire and resignation dates,   *)
(* add-on-linked roles, the three add-on histories and the target month    *)
(* vary.                                                                   *)
(***************************************************************************)
ActiveRow(name, primary, secondary, hire, resign) ==
  [name |-> name, primary |-> primary, secondary |-> secondary,
   employment |-> "regular", total_hours |-> 40, sub_hours |-> 0,
   hire |-> hire, resign |-> resign]

ActiveRows ==
  << ActiveRow("H1", "life_supporter", "none", <<2025, 6, 1>>, None),
     ActiveRow("H2", "vocational_instructor", "none", <<2025, 6, 30>>, None),
     ActiveRow("H3", "life_supporter", "none", <<2025, 7, 1>>, None),
     ActiveRow("R1", "manager", "none", <<2024, 11, 1>>, <<2025, 5, 31>>),
     ActiveRow("R2", "life_supporter", "none", <<2024, 11, 1>>, <<2025, 6, 1>>),
     ActiveRow("R3", "life_supporter", "none", <<2024, 11, 1>>, <<2025, 6, 15>>),
     ActiveRow("W", "wage_instructor", "none", <<2024, 11, 1>>, None),
     ActiveRow("K", "cook", "none", <<2024, 11, 1>>, None),
     ActiveRow("D", "driver", "life_supporter", <<2024, 11, 1>>, <<2025, 6, 1>>),
     ActiveRow("S", "life_supporter", "driver", <<2024, 11, 1>>, None) >>

RECURSIVE ActiveRowsAt(_, _)
ActiveRowsAt(picked, i) ==
  IF i > Len(ActiveRows) THEN <<>>
  ELSE (IF i \in picked THEN <<ActiveRows[i]>> ELSE <<>>)
       \o ActiveRowsAt(picked, i + 1)

\* the tables the staff editor hands over
ActiveTables ==
  {ActiveRowsAt(picked, 1) :
     picked \in {q \in SUBSET (1..Len(ActiveRows)) : Cardinality(q) <= MaxStaff}}

\* what an add-on editor hands over: nothing, or a row without a start and a
\* period from July 2025 on
AddonTables ==
  { <<>>,
    << [start |-> None, end |-> <<2025, 12, 31>>],
       [start |-> <<2025, 7, 1>>, end |-> None] >> }

ActiveTargets == {<<2025, 6>>, <<2025, 7>>}

InitActive ==
  /\ menu = "users_master"
  /\ page = "rerun"
  /\ settings = DefaultSettings
  /\ monthly_records = <<>>
  /\ staff_db = DefaultStaff
  /\ calc_target_date \in {<<t[1], t[2], 1>> : t \in ActiveTargets}
  /\ calc_result = NotRendered
  /\ staffing = NotRendered
  /\ FreshSession

NextActive ==
  \/ Render
  \/ \E m \in {"calc", "staff_master", "master"} : SelectMenu(m)
  \/ \E t \in ActiveTargets : SelectCalcTarget(t[1], t[2])
  \/ \E t \in ActiveTables : SaveStaff(t)
  \/ \E w \in AddonTables, tr \in AddonTables, l \in AddonTables :
        SaveAddons(w, tr, l)

SpecActive == InitActive /\ [][NextActive]_vars

(***************************************************************************)
(* The shift screen (シフト作成) with the staff master, the closure        *)
(* settings and the recurring holidays of the master screen.               *)
(***************************************************************************)
\* the selectboxes shift_y / shift_m of the shift screen
SelectShiftMonth(y, m) ==
  /\ page # "rerun"
  /\ menu = "shift"
  /\ shift_month # <<y, m, 1>>
  /\ shift_month' = <<y, m, 1>>
  /\ Rerun
  /\ UNCHANGED <<menu, settings, monthly_records, staff_db, calc_target_date>>
  /\ UNCHANGED <<special_holidays_list, current_shift_df, call>>

\* save_data_to_sheet and get_all_records on one cell: a null becomes ""
SheetCell(cell) == IF cell.kind \in {"null", "nan"} THEN Cell("empty") ELSE cell

\* the holidays as load_data reads them back: a sheet without a row gives
\* default_holidays
holidays_sheet(df) ==
  IF df = <<>> THEN DefaultHolidays
  ELSE [i \in DOMAIN df |->
          HolidayRow(df[i].name, SheetCell(df[i].start_month),
                     SheetCell(df[i].start_day), SheetCell(df[i].end_month),
                     SheetCell(df[i].end_day))]

\* the button 特別休暇を保存 of the master screen
SaveHolidays(edited_holidays) ==
  /\ page # "rerun"
  /\ menu = "master"
  /\ special_holidays_list' = holidays_sheet(edited_holidays)
  /\ Rerun
  /\ UNCHANGED <<menu, settings, monthly_records, staff_db, calc_target_date>>
  /\ UNCHANGED <<shift_month, current_shift_df, call>>

\* the generation that puts the new rows under the rows of the draft
GenerateBelow ==
  /\ page = "shown"
  /\ menu = "shift"
  /\ LET shift_staff_df == get_active_staff_df(staff_db, settings, shift_month)
         df == new_df(shift_staff_df, shift_month, settings,
                      special_holidays_list)
     IN  current_shift_df' =
           IF current_shift_df = None THEN draft_shift(df)
           ELSE [df EXCEPT !.rows = current_shift_df.rows \o df.rows]
  /\ Rerun
  /\ UNCHANGED <<menu, settings, monthly_records, staff_db, calc_target_date>>
  /\ UNCHANGED <<shift_month, special_holidays_list, call>>

\* the button シフト案を新規自動生成: the new table replaces the draft, is
\* saved and read back
Generate ==
  /\ page = "shown"
  /\ menu = "shift"
  /\ LET shift_staff_df == get_active_staff_df(staff_db, settings, shift_month)
     IN  current_shift_df' =
           draft_shift(new_df(shift_staff_df, shift_month, settings,
                              special_holidays_list))
  /\ Rerun
  /\ UNCHANGED <<menu, settings, monthly_records, staff_db, calc_target_date>>
  /\ UNCHANGED <<shift_month, special_holidays_list, call>>

ShiftRow(name, primary, hire, resign, fixed_off, base_shift) ==
  [name |-> name, primary |-> primary, secondary |-> "none",
   employment |-> "regular", total_hours |-> 40, sub_hours |-> 0,
   hire |-> hire, resign |-> resign,
   fixed_off |-> fixed_off, base_shift |-> base_shift]

\* rows of the staff editor: B joins in June 2025, D leaves with May 2025
ShiftRows ==
  << ShiftRow("A", "manager", <<2024, 4, 1>>, None, {"sat", "sun"}, "A"),
     ShiftRow("B", "life_supporter", <<2025, 6, 1>>, None, {"wed"}, "B"),
     ShiftRow("D", "vocational_instructor", <<2024, 11, 1>>, <<2025, 5, 31>>,
              {"mon"}, "B") >>

RECURSIVE ShiftRowsAt(_, _)
ShiftRowsAt(picked, i) ==
  IF i > Len(ShiftRows) THEN <<>>
  ELSE (IF i \in picked THEN <<ShiftRows[i]>> ELSE <<>>)
       \o ShiftRowsAt(picked, i + 1)

\* the tables the staff editor hands over
ShiftTables ==
  {ShiftRowsAt(picked, 1) :
     picked \in {q \in SUBSET (1..Len(ShiftRows)) : Cardinality(q) <= MaxStaff}}

\* the months picked on the shift screen
ShiftMonths == {<<2025, 5>>, <<2025, 6>>}

\* what the closure widgets of the sidebar form are set to
ClosureChoices == { <<{"sat", "sun"}, TRUE>>, <<{"sun"}, FALSE>> }

\* what the holiday editor hands over: no row, or a new row with an empty
\* number cell and a holiday from 5 May to 7 May
HolidayTables ==
  { <<>>,
    << HolidayRow("blank", Cell("null"), Num(1), Num(12), Num(31)),
       HolidayRow("may", Num(5), Num(5), Num(5), Num(7)) >> }

InitShift ==
  /\ menu = "users_master"
  /\ page = "rerun"
  /\ settings = DefaultSettings
  /\ monthly_records = <<>>
  /\ staff_db = DefaultStaff
  /\ calc_target_date \in {<<t[1], t[2], 1>> : t \in ShiftMonths}
  /\ calc_result = NotRendered
  /\ staffing = NotRendered
  /\ FreshSession

NextShift ==
  \/ Render
  \/ \E m \in {"shift", "staff_master", "master"} : SelectMenu(m)
  \/ \E t \in ShiftMonths : SelectShiftMonth(t[1], t[2])
  \/ \E c \in ClosureChoices :
        SaveSettingsForm(settings.opening_date, c[1], c[2],
                         settings.service_ratio)
  \/ \E t \in ShiftTables : SaveStaff(t)
  \/ \E h \in HolidayTables : SaveHolidays(h)
  \/ Generate

SpecShift == InitShift /\ [][NextShift]_vars

\* a cell of the draft editor set to another code: the run that follows stores
\* the edited table as the draft
EditCell(r, c, code) ==
  /\ page = "shown"
  /\ menu = "shift"
  /\ current_shift_df # None
  /\ r \in DOMAIN current_shift_df.rows
  /\ c \in DOMAIN current_shift_df.columns
  /\ current_shift_df.rows[r].cells[c] # code
  /\ current_shift_df' = [current_shift_df EXCEPT !.rows[r].cells[c] = code]
  /\ Rerun
  /\ UNCHANGED <<menu, settings, monthly_records, staff_db, calc_target_date>>
  /\ UNCHANGED <<shift_month, special_holidays_list, call>>

\* the shift screen with its editor: the first day column of a row is set to
\* 有給 ("paid_leave") or to the closed marker
NextDraft ==
  \/ NextShift
  \/ \E r \in 1..MaxStaff, code \in {"paid_leave", "closed"} : EditCell(r, 1, code)

SpecDraft == InitShift /\ [][NextDraft]_vars

(***************************************************************************)
(* The helper functions applied on their own: call holds the function and  *)
(* its arguments, and after the application its outcome.                   *)
(***************************************************************************)
MaxPeriods == 2

SeqsUpTo(S, n) == UNION {[1..k -> S] : k \in 0..n}

\* items of a capacity history as load_settings_from_sheet leaves them: two
\* share a start, one has a null start
CapacityItems ==
  { [start |-> <<2024, 11, 1>>, count |-> 20],
    [start |-> <<2025, 1, 1>>, count |-> 21],
    [start |-> <<2025, 1, 1>>, count |-> 25],
    [start |-> <<2025, 3, 1>>, count |-> 30],
    [start |-> None, count |-> 40] }

CapacityDates ==
  {<<2024, 10, 31>>, <<2024, 11, 1>>, <<2025, 1, 1>>, <<2025, 2, 15>>, <<2025, 3, 1>>}

CapacityCalls ==
  {[fn |-> "get_capacity_at_date", status |-> "pending",
    target_date |-> d, history_list |-> h] :
     d \in CapacityDates, h \in SeqsUpTo(CapacityItems, MaxPeriods)}

Outcome(c, status, key, value) ==
  [x \in (DOMAIN c) \cup {key} |->
     IF x = "status" THEN status ELSE IF x = key THEN value ELSE c[x]]

LeaveSession ==
  UNCHANGED <<menu, page, settings, monthly_records, staff_db, calc_target_date,
              calc_result, staffing, shift_month, special_holidays_list,
              current_shift_df>>

CallGetCapacity ==
  /\ call.status = "pending"
  /\ call.fn = "get_capacity_at_date"
  /\ call' = IF capacity_raises(call.history_list)
             THEN Outcome(call, "raised", "error", "TypeError")
             ELSE Outcome(call, "returned", "result",
                          get_capacity_at_date(call.target_date, call.history_list))
  /\ LeaveSession

\* periods of an add-on history: open-ended, without a start, one month, and
\* one overlapping it
AddonPeriods ==
  { [start |-> <<2024, 11, 1>>, end |-> None],
    [start |-> None, end |-> <<2025, 12, 31>>],
    [start |-> <<2024, 11, 1>>, end |-> <<2024, 11, 30>>],
    [start |-> <<2024, 11, 15>>, end |-> <<2025, 1, 31>>] }

AddonDates ==
  {<<2024, 10, 31>>, <<2024, 11, 1>>, <<2024, 11, 30>>, <<2024, 12, 1>>,
   <<2025, 1, 31>>, <<2025, 2, 1>>}

AddonCalls ==
  {[fn |-> "is_addon_active", status |-> "pending",
    target_date |-> d, history_list |-> h] :
     d \in AddonDates, h \in SeqsUpTo(AddonPeriods, MaxPeriods)}

CallIsAddonActive ==
  /\ call.status = "pending"
  /\ call.fn = "is_addon_active"
  /\ call' = Outcome(call, "returned", "result",
                     is_addon_active(call.target_date, call.history_list))
  /\ LeaveSession

\* recurring-holiday rows: over the new year, three days of May, one day,
\* and rows with a start month that is no number
HolidayRows ==
  { HolidayRow("new_year", Num(12), Num(29), Num(1), Num(3)),
    HolidayRow("may", Num(5), Num(3), Num(5), Num(5)),
    HolidayRow("obon", Num(8), Num(15), Num(8), Num(15)),
    HolidayRow("empty", Cell("empty"), Num(1), Num(12), Num(31)),
    HolidayRow("text", Num(1), Num(1), Cell("text"), Num(31)),
    HolidayRow("nan", Num(1), Cell("nan"), Num(12), Num(31)),
    HolidayRow("null", Cell("null"), Num(1), Num(12), Num(31)),
    HolidayRow("missing", Num(1), Num(1), Num(12), Cell("missing")) }

HolidayDates ==
  {<<2025, 12, 28>>, <<2025, 12, 29>>, <<2025, 12, 31>>, <<2026, 1, 1>>,
   <<2026, 1, 3>>, <<2026, 1, 4>>, <<2025, 5, 4>>, <<2025, 8, 15>>,
   <<2025, 6, 10>>}

HolidayCalls ==
  {[fn |-> "is_special_holiday_recurring", status |-> "pending",
    target_date |-> d, holiday_df |-> h] :
     d \in HolidayDates, h \in SeqsUpTo(HolidayRows, MaxPeriods)}

CallIsSpecialHoliday ==
  /\ call.status = "pending"
  /\ call.fn = "is_special_holiday_recurring"
  /\ LET res == is_special_holiday_recurring(call.target_date, call.holiday_df)
     IN  call' = IF res.status = "raised"
                 THEN Outcome(call, "raised", "error", res.error)
                 ELSE Outcome(call, "returned", "result", res.is_sp)
  /\ LeaveSession

\* values ceil_decimal_1 is given: one-decimal values, capacity * 0.9 over the
\* capacities of the editor, and quotients of small sums
CeilValues ==
  {Tenth(n) : n \in 0..30}
  \cup {FMulSmall(PointNine, c) : c \in 20..60}
  \cup {FDivSmall(FromInt(a), 22) : a \in 440..460}

CeilCalls ==
  {[fn |-> "ceil_decimal_1", status |-> "pending", value |-> x] : x \in CeilValues}

CallCeilDecimal ==
  /\ call.status = "pending"
  /\ call.fn = "ceil_decimal_1"
  /\ call' = Outcome(call, "returned", "result", ceil_decimal_1(call.value))
  /\ LeaveSession

InitCalls ==
  /\ menu = "users_master"
  /\ page = "rerun"
  /\ settings = DefaultSettings
  /\ monthly_records = <<>>
  /\ staff_db = DefaultStaff
  /\ calc_target_date = <<2025, 6, 1>>
  /\ calc_result = NotRendered
  /\ staffing = NotRendered
  /\ shift_month = calc_target_date
  /\ special_holidays_list = DefaultHolidays
  /\ current_shift_df = None
  /\ call \in CapacityCalls \cup AddonCalls \cup HolidayCalls \cup CeilCalls

NextCalls ==
  \/ CallGetCapacity
  \/ CallIsAddonActive
  \/ CallIsSpecialHoliday
  \/ CallCeilDecimal

SpecCalls == InitCalls /\ [][NextCalls]_vars

(***************************************************************************)
(* What the claims speak of                                                *)
(***************************************************************************)
\* the calculation screen has been drawn from the present session state
Shown == menu = "calc" /\ page # "rerun"

Returned == Shown /\ calc_result.status = "returned"

Elapsed == ElapsedMonths(calc_target_date, settings.opening_date)

RecordSet == {monthly_records[i] : i \in 1..Len(monthly_records)}

\* the supporting rows of the result
SupportSet ==
  IF calc_result.details_df = None THEN {}
  ELSE {calc_result.details_df[i] : i \in 1..Len(calc_result.details_df)}

MonthIndex(ym) == ym[1] * 12 + ym[2]

\* how many months before the target month the month of a row lies
MonthsBack(r) == MonthIndex(calc_target_date) - MonthIndex(r.ym)

FiscalYear(ym) == IF ym[2] >= 4 THEN ym[1] ELSE ym[1] - 1

InPrevFiscalYear(r) == FiscalYear(r.ym) = FiscalYear(calc_target_date) - 1

\* the facility was open on April 1 of the prior fiscal year, and a record
\* lies in that year
PriorYearApplies ==
  /\ DateLE(settings.opening_date, <<FiscalYear(calc_target_date) - 1, 4, 1>>)
  /\ \E r \in RecordSet : InPrevFiscalYear(r)

\* months elapsed >= 6, records exist and the prior-fiscal-year rule does not
\* apply
TrailingUsed == Returned /\ Elapsed >= 6 /\ RecordSet # {} /\ ~PriorYearApplies

NotBeforeOpening(r) == MonthIndex(r.ym) >= MonthIndex(settings.opening_date)

Sentinel(name) ==
  /\ calc_result.status = "returned"
  /\ calc_result.rule_name = name
  /\ calc_result.result = FZero
  /\ calc_result.details_df = None

\* the rows the code selected, and their sums
Selected == target_df(calc_target_date, settings.opening_date, monthly_records)

CeilDiv(a, b) == (a + b - 1) \div b

(***************************************************************************)
(* C1: whenever fewer than 6 months have elapsed from the opening date to   *)
(* the target date, for every record set, the new-facility rule is         *)
(* selected, no record is used, and the result is the capacity at the      *)
(* target date times 0.9 rounded up to one decimal (9 * capacity tenths).   *)
(***************************************************************************)
C1_NewFacilityRule ==
  (Shown /\ Elapsed < 6) =>
     /\ calc_result.status = "returned"
     /\ calc_result.rule_name = "new_facility"
     /\ calc_result.details_df = None
     /\ calc_result.result =
          Tenth(9 * get_capacity_at_date(calc_target_date, settings.capacity_history))

(***************************************************************************)
(* C2: with at least 6 months elapsed and records present, the             *)
(* prior-fiscal-year rule is used exactly when the opening date is on or   *)
(* before April 1 of the prior fiscal year and a record month lies in that *)
(* fiscal year; the support set is then exactly the records of that fiscal *)
(* year; otherwise the trailing-window rule is used.                       *)
(***************************************************************************)
C2_PriorFiscalYearRule ==
  (Returned /\ Elapsed >= 6 /\ RecordSet # {}) =>
     IF PriorYearApplies
     THEN /\ calc_result.rule_name = "prior_fiscal_year"
          /\ SupportSet = {r \in RecordSet : InPrevFiscalYear(r)}
     ELSE calc_result.rule_name \in {"trailing_window", "insufficient_period_data"}

\* the facility opened exactly on April 1 of the prior fiscal year, and only
\* some of the records are in that year
C2_Witness ==
  /\ Returned
  /\ calc_result.rule_name = "prior_fiscal_year"
  /\ settings.opening_date = <<FiscalYear(calc_target_date) - 1, 4, 1>>
  /\ SupportSet # RecordSet

(***************************************************************************)
(* C3: under the trailing-window rule with at least 12 months elapsed, the *)
(* support set is exactly the records of the 12 full months before the     *)
(* target month (not before the opening month), the 12th-back month        *)
(* included.                                                               *)
(***************************************************************************)
C3_TwelveMonthWindow ==
  (TrailingUsed /\ Elapsed >= 12) =>
     SupportSet = {r \in RecordSet :
                     MonthsBack(r) \in 1..12 /\ NotBeforeOpening(r)}

(***************************************************************************)
(* C4: under the trailing-window rule with months elapsed in [6, 12), the  *)
(* support set is exactly the records of the 6 full months before the      *)
(* target month (not before the opening month); older records are never    *)
(* included.                                                               *)
(***************************************************************************)
C4_SixMonthWindow ==
  (TrailingUsed /\ Elapsed \in 6..11) =>
     SupportSet = {r \in RecordSet :
                     MonthsBack(r) \in 1..6 /\ NotBeforeOpening(r)}

(***************************************************************************)
(* C5: when the selected support set is not empty and its open-days sum is *)
(* positive, the result is the attendance-days sum over the open-days sum, *)
(* rounded up to the next 0.1, and the supporting rows are the support set.*)
(***************************************************************************)
C5_AverageRoundedUp ==
  (Shown /\ Elapsed >= 6 /\ Selected # <<>> /\ SumOf(Selected, "days") > 0) =>
     /\ calc_result.status = "returned"
     /\ calc_result.result =
          Tenth(CeilDiv(10 * SumOf(Selected, "users"), SumOf(Selected, "days")))
     /\ calc_result.details_df = Selected

\* an average over two rows that is not a whole number of tenths
C5_Witness ==
  /\ Returned
  /\ calc_result.details_df # None
  /\ Len(calc_result.details_df) >= 2
  /\ (10 * calc_result.total_users) % calc_result.total_days # 0

(***************************************************************************)
(* C6: when the selected support set is not empty but its open-days sum to *)
(* zero, the function returns normally with result 0.0.                    *)
(***************************************************************************)
C6_ZeroOpenDays ==
  (Shown /\ Elapsed >= 6 /\ Selected # <<>> /\ SumOf(Selected, "days") = 0) =>
     /\ calc_result.status = "returned"
     /\ calc_result.result = FZero

(***************************************************************************)
(* C7: with at least 6 months elapsed the function returns a sentinel with *)
(* result 0 and no supporting rows when there is no record ("no records")  *)
(* and when records exist but none falls in the period of the selected     *)
(* rule ("insufficient period data"); the two names differ.                *)
(***************************************************************************)
C7_InsufficientData ==
  (Shown /\ Elapsed >= 6) =>
     /\ RecordSet = {} => Sentinel("no_records")
     /\ (RecordSet # {} /\ ~PriorYearApplies
         /\ ~\E r \in RecordSet :
               /\ DateLE(ActualStart(calc_target_date, settings.opening_date),
                         RecordDate(r))
               /\ DateLE(RecordDate(r), EndSearch(calc_target_date)))
        => Sentinel("insufficient_period_data")

\* records exist, none in the period
C7_Witness ==
  /\ Shown /\ Elapsed >= 6
  /\ RecordSet # {}
  /\ calc_result.status = "returned"
  /\ calc_result.rule_name = "insufficient_period_data"

\* the staffing check has been drawn
Checked == Returned /\ staffing.status = "checked"

\* the average on show, in tenths
AvgTenths == FRoundTenths(calc_result.result)

WageOn == is_addon_active(calc_target_date, settings.wage_history)

ActiveStaff == get_active_staff_df(staff_db, settings, calc_target_date)

Countable == {"vocational_instructor", "life_supporter", "wage_instructor"}

Capped(x) == IF FLess(FromInt(1), x) THEN FromInt(1) ELSE x

HoursOver(h) == FDiv(FromInt(h), FromInt(settings.fulltime_hours))

\* what the two roles of a staff member contribute, each capped on its own
PrimaryShare(s) ==
  IF s.primary \in Countable
  THEN Capped(HoursOver(Max(0, s.total_hours - s.sub_hours))) ELSE FZero

SecondaryShare(s) ==
  IF s.secondary \in Countable THEN Capped(HoursOver(s.sub_hours)) ELSE FZero

\* what the check counted for the staff member: the entry of details, if any
Counted(s) ==
  IF \E i \in 1..Len(staffing.details) : staffing.details[i].name = s.name
  THEN (CHOOSE d \in {staffing.details[i] : i \in 1..Len(staffing.details)} :
          d.name = s.name).fte
  ELSE FZero

(***************************************************************************)
(* C8: the required staff number shown is the average utilization over the *)
(* service ratio rounded up to one decimal, plus 1.0 when the wage add-on  *)
(* is active on the target date: for an average of n tenths and a ratio of *)
(* r tenths, ceil(10 n / r) tenths plus 10 tenths when active.             *)
(***************************************************************************)
C8_RequiredStaff ==
  Checked =>
     staffing.required_staff =
        Tenth(CeilDiv(10 * AvgTenths, settings.service_ratio)
              + (IF WageOn THEN 10 ELSE 0))

(***************************************************************************)
(* C9: the staffing check reports "sufficient" exactly when the available  *)
(* FTE, summed without rounding, is at least the required FTE; otherwise   *)
(* it reports the shortfall required - available (to one decimal).         *)
(***************************************************************************)
C9_CompliantVerdict ==
  Checked =>
     /\ staffing.verdict = "sufficient"
          <=> ~FLess(staffing.fte_sum, staffing.required_staff)
     /\ staffing.verdict = "short" =>
          staffing.shortfall =
             Tenth(FRoundTenths(FSub(staffing.required_staff, staffing.fte_sum)))

(***************************************************************************)
(* C10: for every active staff member, the counted contribution is the sum *)
(* of min(1, mainHours / fulltime) for a countable primary role and        *)
(* min(1, secondaryHours / fulltime) for a countable secondary role, with  *)
(* mainHours = max(0, contracted - secondary), and is never more than      *)
(* contracted / fulltime.                                                  *)
(***************************************************************************)
C10_PerStaffApportionment ==
  Checked =>
     \A i \in 1..Len(ActiveStaff) :
        LET s == ActiveStaff[i]
        IN  /\ Counted(s) = FAdd(PrimaryShare(s), SecondaryShare(s))
            /\ ~FLess(HoursOver(s.total_hours), Counted(s))

\* the staff master's rows
StaffSet == {staff_db[i] : i \in 1..Len(staff_db)}

\* the member is among the rows the check works with
Kept(row) ==
  \E j \in 1..Len(staffing.current_staff_df) :
     staffing.current_staff_df[j] = row

FirstOfNextMonth(d) ==
  IF d[2] = 12 THEN <<d[1] + 1, 1, 1>> ELSE <<d[1], d[2] + 1, 1>>

\* hired by the last day of the target month, and not resigned before the
\* target date
Tenured(row) ==
  /\ DateLT(row.hire, FirstOfNextMonth(calc_target_date))
  /\ row.resign = None \/ ~DateLT(row.resign, calc_target_date)

\* the add-on history that goes with an add-on-linked role
LinkedHistory(role) ==
  CASE role = "wage_instructor" -> settings.wage_history
    [] role = "cook"            -> settings.lunch_history
    [] role = "driver"          -> settings.transport_history

AddonRoles == {"wage_instructor", "cook", "driver"}

\* a start, start <= d, and no end or d <= end
Covers(period, d) ==
  /\ period.start # None
  /\ ~DateLT(d, period.start)
  /\ period.end = None \/ ~DateLT(period.end, d)

ActiveOn(hist, d) == \E i \in 1..Len(hist) : Covers(hist[i], d)

(***************************************************************************)
(* C11: a staff member whose primary role is not add-on-linked is kept by  *)
(* get_active_staff_df for target date T exactly when the hire date is on  *)
(* or before the last day of T's month and there is no resignation date    *)
(* or it is on or after T.                                                 *)
(***************************************************************************)
C11_TenureTest ==
  Checked =>
     \A row \in StaffSet :
        row.primary \notin AddonRoles => (Kept(row) <=> Tenured(row))

\* a member resigning exactly on T is kept and one hired after the month's
\* last day is dropped
C11_Witness ==
  /\ Checked
  /\ \E row \in StaffSet : row.resign = calc_target_date /\ Kept(row)
  /\ \E row \in StaffSet :
        ~DateLT(row.hire, FirstOfNextMonth(calc_target_date)) /\ ~Kept(row)

(***************************************************************************)
(* C12: among the staff passing the tenure test, a member is dropped       *)
(* exactly when the primary role is the wage-incentive, meal-service or    *)
(* transport role and the matching add-on is not active on the target      *)
(* date; a secondary role never drops a member.                            *)
(***************************************************************************)
C12_AddonGating ==
  Checked =>
     \A row \in StaffSet :
        Tenured(row) =>
           (~Kept(row) <=>
              /\ row.primary \in AddonRoles
              /\ ~ActiveOn(LinkedHistory(row.primary), calc_target_date))

\* the cook is kept while the meal add-on is active, and the member with the
\* transport role as secondary role is kept while the transport add-on is not
C12_Witness ==
  /\ Checked
  /\ \E row \in StaffSet : row.primary = "cook" /\ Kept(row)
  /\ \E row \in StaffSet :
        /\ row.secondary = "driver" /\ Kept(row)
        /\ ~ActiveOn(settings.transport_history, calc_target_date)

\* get_capacity_at_date has been applied
CapacityDone == call.status # "none" /\ call.status # "pending"
                /\ call.fn = "get_capacity_at_date"

\* the items of the history that have a start
ValidItems(h) == {h[i] : i \in {j \in 1..Len(h) : h[j].start # None}}

\* the capacity the items decide for the date: the count of an item with
\* the latest start among the items with start <= d, the default if none
DecidedBy(items, d, cap) ==
  LET started == {it \in items : ~DateLT(d, it.start)}
  IN  IF started = {} THEN cap = 20
      ELSE \E it \in started :
              /\ \A other \in started : ~DateLT(it.start, other.start)
              /\ cap = it.count

(***************************************************************************)
(* C13: for every capacity history whose items all have a start, in any    *)
(* input order, and every date d, get_capacity_at_date returns the count   *)
(* of the item with the latest start among those with start <= d, and 20   *)
(* when the history is empty or no item has start <= d.                    *)
(***************************************************************************)
C13_CapacityAtDate ==
  (CapacityDone /\ ValidItems(call.history_list) =
                     {call.history_list[i] : i \in 1..Len(call.history_list)}) =>
     /\ call.status = "returned"
     /\ DecidedBy(ValidItems(call.history_list), call.target_date, call.result)

\* a history given latest item first, of which the latest item applies
C13_Witness ==
  /\ CapacityDone
  /\ call.status = "returned"
  /\ Len(call.history_list) = 2
  /\ call.history_list[1].start # None /\ call.history_list[2].start # None
  /\ DateLT(call.history_list[2].start, call.history_list[1].start)
  /\ call.result = call.history_list[1].count

\* is_addon_active has been applied
AddonDone == call.status # "none" /\ call.status # "pending"
             /\ call.fn = "is_addon_active"

(***************************************************************************)
(* C14: for every add-on history and date d, is_addon_active is true       *)
(* exactly when some period has a start, start <= d, and no end or         *)
(* d <= end; a period without a start never matches, periods may overlap.  *)
(***************************************************************************)
C14_AddonActive ==
  AddonDone =>
     /\ call.status = "returned"
     /\ call.result = ActiveOn(call.history_list, call.target_date)

\* the date is the end date of the second period, the first has no start
C14_Witness ==
  /\ AddonDone
  /\ call.result = TRUE
  /\ Len(call.history_list) = 2
  /\ call.history_list[1].start = None
  /\ call.history_list[2].end = call.target_date

\* is_special_holiday_recurring has been applied
HolidayDone == call.status # "none" /\ call.status # "pending"
               /\ call.fn = "is_special_holiday_recurring"

\* a row whose month and day cells are all numbers
WellFormed(row) ==
  \A f \in {"start_month", "start_day", "end_month", "end_day"} :
     row[f].kind = "int"

WellFormedRows(h) == {h[i] : i \in {j \in 1..Len(h) : WellFormed(h[j])}}

\* (month, day) as one number
MonthDay(m, d) == 100 * m + d

\* the date lies in the row's range, which runs over the end of the year
\* when its start is after its end
InRange(row, d) ==
  LET s == MonthDay(row.start_month.v, row.start_day.v)
      e == MonthDay(row.end_month.v, row.end_day.v)
      t == MonthDay(d[2], d[3])
  IN  IF s <= e THEN s <= t /\ t <= e ELSE t >= s \/ t <= e

(***************************************************************************)
(* C15: for every date and every list of well-formed recurring-holiday     *)
(* rows, is_special_holiday_recurring reports a holiday exactly when the   *)
(* (month, day) of the date lies in the range of some row, a range with    *)
(* start after end running over the end of the year.                       *)
(***************************************************************************)
C15_RecurringHoliday ==
  (HolidayDone /\ \A i \in 1..Len(call.holiday_df) : WellFormed(call.holiday_df[i])) =>
     /\ call.status = "returned"
     /\ call.result = \E row \in WellFormedRows(call.holiday_df) :
                         InRange(row, call.target_date)

\* January 3 is found in the range December 29 to January 3, which is not
\* the first row
C15_Witness ==
  /\ HolidayDone
  /\ call.status = "returned" /\ call.result = TRUE
  /\ call.target_date = <<2026, 1, 3>>
  /\ Len(call.holiday_df) = 2
  /\ call.holiday_df[1].name = "may"
  /\ call.holiday_df[2].name = "new_year"

(***************************************************************************)
(* C19: is_special_holiday_recurring never raises on a row with a month or *)
(* day cell that is empty, no number, null or missing: the row is skipped  *)
(* and the well-formed rows alone decide the result.                       *)
(***************************************************************************)
C19_MalformedHolidayRow ==
  HolidayDone =>
     /\ call.status = "returned"
     /\ call.result = \E row \in WellFormedRows(call.holiday_df) :
                         InRange(row, call.target_date)

\* ceil_decimal_1 has been applied
CeilDone == call.status # "none" /\ call.status # "pending"
            /\ call.fn = "ceil_decimal_1"

\* r < x + 0.1 for the exact values of two floats: 10 r < 10 x + 1
BelowPlusTenth(r, x) ==
  LET e0 == Min(Min(r.e, x.e), 0)
  IN  BigLess(BigMulSmall(BigShl(r.m, r.e - e0), 10),
              BigAdd(BigMulSmall(BigShl(x.m, x.e - e0), 10),
                     BigShl(<<1>>, -e0)))

(***************************************************************************)
(* C18: ceil_decimal_1 is idempotent, and for every non-negative x its     *)
(* result is greater than or equal to x and less than x + 0.1.             *)
(***************************************************************************)
C18_CeilProperties ==
  CeilDone =>
     /\ ceil_decimal_1(call.result) = call.result
     /\ ~FLess(call.result, call.value)
     /\ BelowPlusTenth(call.result, call.value)

(***************************************************************************)
(* C20: get_capacity_at_date never raises when an item of the capacity     *)
(* history has a null start: the item is skipped and the capacity is the   *)
(* one the items with a start decide (the default when none qualifies).    *)
(***************************************************************************)
C20_CapacityNullStart ==
  CapacityDone =>
     /\ call.status = "returned"
     /\ DecidedBy(ValidItems(call.history_list), call.target_date, call.result)

\* the rows of a record table for a month, and for the other months
RowsOf(records, ym) == {i \in 1..Len(records) : records[i].ym = ym}

OtherRows(records, ym) ==
  {records[i] : i \in {j \in 1..Len(records) : records[j].ym # ym}}

UniqueMonths(records) ==
  \A i, j \in 1..Len(records) : records[i].ym = records[j].ym => i = j

(***************************************************************************)
(* C17: the record table holds at most one entry per year+month, and every *)
(* step that changes it is a save for one month M after which exactly one  *)
(* entry for M is there, carrying entered values, with the entries of      *)
(* every other month as before.                                            *)
(***************************************************************************)
C17_RecordUpsert ==
  [][ /\ UniqueMonths(monthly_records) => UniqueMonths(monthly_records')
      /\ monthly_records' # monthly_records =>
           \E ym \in AvgMonths, v \in AvgValues :
              /\ Cardinality(RowsOf(monthly_records', ym)) = 1
              /\ \E i \in RowsOf(monthly_records', ym) :
                    monthly_records'[i] = [ym |-> ym, users |-> v[1], days |-> v[2]]
              /\ OtherRows(monthly_records', ym) = OtherRows(monthly_records, ym) ]_vars

\* after a save the table holds two months, the earlier month entered last
C17_Witness ==
  /\ menu = "calc" /\ page = "rerun"
  /\ Len(monthly_records) = 2
  /\ UniqueMonths(monthly_records)
  /\ MonthIndex(monthly_records[2].ym) < MonthIndex(monthly_records[1].ym)

\* the weekday of a date by Zeller's congruence
DayName(d) ==
  LET m == IF d[2] < 3 THEN d[2] + 12 ELSE d[2]
      y == IF d[2] < 3 THEN d[1] - 1 ELSE d[1]
      h == (d[3] + ((13 * (m + 1)) \div 5) + (y % 100) + ((y % 100) \div 4)
            + ((y \div 100) \div 4) + 5 * (y \div 100)) % 7
  IN  <<"sat", "sun", "mon", "tue", "wed", "thu", "fri">>[h + 1]

\* the facility is closed on d: a closed weekday, a national holiday when
\* those close the facility, or a day of a recurring holiday
ClosedDay(d) ==
  \/ DayName(d) \in settings.closed_days
  \/ settings.close_on_holiday /\ d \in JpHolidays
  \/ \E row \in WellFormedRows(special_holidays_list) : InRange(row, d)

\* what generation writes for a member of the staff on d
ExpectedCell(staff, d) ==
  IF ClosedDay(d) THEN "closed"
  ELSE IF DayName(d) \in staff.fixed_off THEN "day_off"
  ELSE staff.base_shift

\* df is the grid of the staff for the picked month
IsGrid(df, staff) ==
  LET n == DaysInMonth(shift_month[1], shift_month[2])
  IN  /\ df # None
      /\ Len(df.columns) = n
      /\ \A i \in 1..n :
            df.columns[i] = <<i, DayName(<<shift_month[1], shift_month[2], i>>)>>
      /\ Len(df.rows) = Len(staff)
      /\ \A k \in 1..Len(staff) :
            /\ df.rows[k].name = staff[k].name
            /\ Len(df.rows[k].cells) = n
            /\ \A i \in 1..n :
                  df.rows[k].cells[i] =
                    ExpectedCell(staff[k], <<shift_month[1], shift_month[2], i>>)

\* a step of the shown shift screen that ends the run with another draft
DraftReplaced ==
  /\ menu = "shift" /\ page = "shown" /\ page' = "rerun"
  /\ current_shift_df' # current_shift_df

(***************************************************************************)
(* C16: pressing generate replaces the draft with the grid of the staff    *)
(* that get_active_staff_df gives for the first day of the picked month:   *)
(* one row per member in their order, one column per calendar day, each    *)
(* cell the closed marker on a closed day, else the day-off marker on a    *)
(* fixed day off of the member, else the member's shift code; with no      *)
(* member there is no draft.  Nothing of the draft before is left.         *)
(***************************************************************************)
C16_GenerateReplaces ==
  [][ DraftReplaced =>
        LET staff == get_active_staff_df(staff_db, settings, shift_month)
        IN  IF staff = <<>> THEN current_shift_df' = None
            ELSE IsGrid(current_shift_df', staff) ]_vars

\* a generated grid for May 2025 with two members: 7 May, a Wednesday, is
\* closed by the recurring holiday only, and a member has a day off
C16_Witness ==
  /\ menu = "shift" /\ page = "rerun"
  /\ shift_month = <<2025, 5, 1>>
  /\ current_shift_df # None
  /\ IsGrid(current_shift_df,
            get_active_staff_df(staff_db, settings, shift_month))
  /\ Len(current_shift_df.rows) = 2
  /\ current_shift_df.rows[1].cells[7] = "closed"
  /\ current_shift_df.rows[1].cells[8] = "A"
  /\ current_shift_df.rows[2].cells[12] = "day_off"
  /\ current_shift_df.rows[2].cells[13] = "B"

(***************************************************************************)
(* C21: the draft changes only through generation or a cell edit, both     *)
(* events of the shown shift screen: a run of the script that draws a      *)
(* screen, the shift screen for any picked month included, leaves the      *)
(* draft with the same rows, day columns and cells.                        *)
(***************************************************************************)
C21_DraftFrame ==
  [][ current_shift_df' # current_shift_df =>
        menu = "shift" /\ page = "shown" /\ page' = "rerun" ]_vars

=============================================================================
